---- MODULE Spec2Model ----
(***************************************************************************)
(* Dispatch Summary Analyzer: the extraction-and-normalisation pipeline of *)
(* data_processor.py, the report assembly of excel_generator.py and their  *)
(* caller process_uploaded_files of streamlit_app.py.                      *)
(*                                                                         *)
(* Text is modelled as a sequence of one-character strings, so that        *)
(* endswith, substring search, slicing and splitting are computed on the   *)
(* characters.  A spreadsheet cell is a record [t, v, n]: t is "null",     *)
(* "str" or "num", v the text of a "str" cell, n the value of a "num"      *)
(* cell.  A table is [columns, rows]; a row is a sequence of cells in      *)
(* column order, Python position i being TLA+ position i + 1.              *)
(***************************************************************************)
EXTENDS Integers, Sequences, FiniteSets, TLC

(* ------------------------------ bounds --------------------------------- *)
\* longest directory walk (number of entries of the upload directory)
MaxWalk == 3

(* ------------------------------- text ---------------------------------- *)
EndsWith(s, suf) ==
    /\ Len(s) >= Len(suf)
    /\ SubSeq(s, Len(s) - Len(suf) + 1, Len(s)) = suf

EndsWithAny(s, sufs) == \E suf \in sufs : EndsWith(s, suf)

Contains(s, sub) ==
    \E i \in 1..(Len(s) - Len(sub) + 1) : SubSeq(s, i, i + Len(sub) - 1) = sub

\* the position of the first c in s at or after position i, Len(s) + 1 if none
RECURSIVE FindChar(_, _, _)
FindChar(s, c, i) ==
    IF i > Len(s) THEN Len(s) + 1
    ELSE IF s[i] = c THEN i
    ELSE FindChar(s, c, i + 1)

\* str.split(c): the pieces of s between the occurrences of c
RECURSIVE Split(_, _)
Split(s, c) ==
    LET j == FindChar(s, c, 1)
    IN  IF j > Len(s) THEN <<s>>
        ELSE <<SubSeq(s, 1, j - 1)>> \o Split(SubSeq(s, j + 1, Len(s)), c)

\* str(n) of a natural number
RECURSIVE DecStr(_)
DecStr(n) ==
    LET d == <<"0", "1", "2", "3", "4", "5", "6", "7", "8", "9">>
    IN  IF n < 10 THEN <<d[n + 1]>> ELSE DecStr(n \div 10) \o <<d[(n % 10) + 1]>>

Upper == <<"A","B","C","D","E","F","G","H","I","J","K","L","M","N","O","P","Q","R","S","T","U","V","W","X","Y","Z">>
Lower == <<"a","b","c","d","e","f","g","h","i","j","k","l","m","n","o","p","q","r","s","t","u","v","w","x","y","z">>
Whitespace == {" ", "\t", "\n", "\r"}

\* str.lower()
StrLower(s) ==
    [i \in 1..Len(s) |->
        IF \E k \in 1..26 : Upper[k] = s[i]
        THEN Lower[CHOOSE k \in 1..26 : Upper[k] = s[i]]
        ELSE s[i]]

\* str.strip()
RECURSIVE StrStrip(_)
StrStrip(s) ==
    IF s = <<>> THEN s
    ELSE IF s[1] \in Whitespace THEN StrStrip(Tail(s))
    ELSE IF s[Len(s)] \in Whitespace THEN StrStrip(SubSeq(s, 1, Len(s) - 1))
    ELSE s

(* ------------------------------- cells --------------------------------- *)
NullCell == [t |-> "null", v |-> <<>>, n |-> 0]
StrCell(s) == [t |-> "str", v |-> s, n |-> 0]
NumCell(k) == [t |-> "num", v |-> <<>>, n |-> k]

\* pd.notnull / Series.notna
NotNull(c) == c.t # "null"

\* Python str() of a cell value: NaN prints as nan
PyStr(c) ==
    CASE c.t = "null" -> <<"n","a","n">>
      [] c.t = "num" -> DecStr(c.n)
      [] OTHER -> c.v

(* --------------------------- extract_files ----------------------------- *)
ExcludePattern == <<"U","n","p","l","a","n","n","e","d","_","B","a","c","k","h","a","u","l","s","_","R","e","a","s","o","n">>
SpreadsheetSuffixes == {<<".","x","l","s","x">>, <<".","x","l","s">>, <<".","c","s","v">>}

\* variant: the exclusion applied whatever the option says
should_extract_always_excluding(member, exclude) ==
    /\ EndsWithAny(member, SpreadsheetSuffixes)
    /\ ~Contains(member, ExcludePattern)

should_extract(member, exclude) ==
    /\ EndsWithAny(member, SpreadsheetSuffixes)
    /\ (~exclude \/ ~Contains(member, ExcludePattern))

\* A directory is the sequence of its files [path, content] in the order
\* of their creation; content names a spreadsheet of FileContent.
Paths(fs) == {fs[i].path : i \in 1..Len(fs)}

\* zip_ref.extract(member, output_path): the member is written under its
\* own path, replacing a file already there
ZipExtract(fs, member) ==
    IF member.path \in Paths(fs)
    THEN [i \in 1..Len(fs) |-> IF fs[i].path = member.path THEN member ELSE fs[i]]
    ELSE Append(fs, member)

\* the member loop of one archive: [fs, raised]; an exception raised by
\* extract leaves the loop with the members extracted so far
RECURSIVE ExtractMembers(_, _, _, _)
ExtractMembers(arch, i, fs, exclude) ==
    IF i > Len(arch.members) THEN [fs |-> fs, raised |-> FALSE]
    ELSE IF should_extract(arch.members[i].path, exclude)
         THEN IF arch.failAt = i THEN [fs |-> fs, raised |-> TRUE]
              ELSE ExtractMembers(arch, i + 1, ZipExtract(fs, arch.members[i]), exclude)
         ELSE ExtractMembers(arch, i + 1, fs, exclude)

\* the body of the try block of one archive: zipfile.ZipFile raises
\* BadZipFile on a corrupt archive
OpenArchive(arch, fs, exclude) ==
    IF arch.bad THEN [fs |-> fs, raised |-> TRUE]
    ELSE ExtractMembers(arch, 1, fs, exclude)

\* variant: no handler around the archive, the exception leaves the walk
ExtractArchive_uncaught(arch, fs, exclude) ==
    IF ~EndsWith(arch.name, <<".","z","i","p">>) THEN [fs |-> fs, raised |-> FALSE]
    ELSE OpenArchive(arch, fs, exclude)

\* one file of os.walk: only names ending in .zip are opened; BadZipFile
\* and Exception are caught and logged
ExtractArchive(arch, fs, exclude) ==
    IF ~EndsWith(arch.name, <<".","z","i","p">>) THEN [fs |-> fs, raised |-> FALSE]
    ELSE [fs |-> OpenArchive(arch, fs, exclude).fs, raised |-> FALSE]

\* the walk: an exception that leaves the handler of an archive ends it
RECURSIVE extract_files(_, _, _, _)
extract_files(walk, i, fs, exclude) ==
    IF i > Len(walk) THEN [fs |-> fs, raised |-> FALSE]
    ELSE LET r == ExtractArchive(walk[i], fs, exclude)
         IN  IF r.raised THEN r
             ELSE extract_files(walk, i + 1, r.fs, exclude)

(* ---------------------- _convert_to_eastern_hour ----------------------- *)
\* the outcome of a computation that raised an exception
Raised == [t |-> "raised", v |-> <<>>, n |-> 0]

Digits == <<"0","1","2","3","4","5","6","7","8","9">>
IsDigit(c) == \E k \in 1..10 : Digits[k] = c
DigitVal(c) == (CHOOSE k \in 1..10 : Digits[k] = c) - 1

\* the number of digits of s starting at position i
RECURSIVE DigitRun(_, _)
DigitRun(s, i) ==
    IF i > Len(s) \/ ~IsDigit(s[i]) THEN 0 ELSE 1 + DigitRun(s, i + 1)

\* the number of whitespace characters of s starting at position i
RECURSIVE SpaceRun(_, _)
SpaceRun(s, i) ==
    IF i > Len(s) \/ s[i] \notin Whitespace THEN 0 ELSE 1 + SpaceRun(s, i + 1)

\* int() of the n digits of s starting at position i
RECURSIVE IntAt(_, _, _)
IntAt(s, i, n) ==
    IF n = 0 THEN 0 ELSE IntAt(s, i, n - 1) * 10 + DigitVal(s[i + n - 1])

IsLeap(y) == (y % 4 = 0 /\ y % 100 # 0) \/ y % 400 = 0

DaysInMonth(y, m) ==
    IF m = 2 THEN (IF IsLeap(y) THEN 29 ELSE 28)
    ELSE IF m \in {4, 6, 9, 11} THEN 30 ELSE 31

ParseError == [ok |-> FALSE, year |-> 0, month |-> 0, day |-> 0, hour |-> 0, minute |-> 0]

\* the directives of "%Y-%m-%d %H:%M" as _strptime matches them:
\*   %Y \d\d\d\d              %m 1[0-2]|0[1-9]|[1-9]
\*   %d 3[0-1]|[1-2]\d|0[1-9]|[1-9]| [1-9]
\*   %H 2[0-3]|[0-1]\d|\d     %M [0-5]\d|\d      blank \s+
\* A field is followed by a character no digit matches, so a field is the
\* whole run of digits found at its place.
MonthField(n, x) == (n = 2 /\ x \in 1..12) \/ (n = 1 /\ x \in 1..9)
DayField(n, x) == (n = 2 /\ x \in 1..31) \/ (n = 1 /\ x \in 1..9)
HourField(n, x) == (n = 2 /\ x \in 0..23) \/ n = 1
MinuteField(n, x) == (n = 2 /\ x \in 0..59) \/ n = 1

\* datetime.strptime(s, "%Y-%m-%d %H:%M"); ok = FALSE stands for ValueError
strptime(s) ==
    IF ~(DigitRun(s, 1) >= 4 /\ Len(s) >= 5 /\ s[5] = "-") THEN ParseError
    ELSE
    LET Y  == IntAt(s, 1, 4)
        nm == DigitRun(s, 6)
        mo == IntAt(s, 6, nm)
        pd == 6 + nm                      \* the second "-"
    IN
    IF ~(MonthField(nm, mo) /\ pd <= Len(s) /\ s[pd] = "-") THEN ParseError
    ELSE
    LET lead == IF pd + 1 <= Len(s) /\ s[pd + 1] = " " THEN 1 ELSE 0
        nd == DigitRun(s, pd + 1 + lead)
        d  == IntAt(s, pd + 1 + lead, nd)
        ps == pd + 1 + lead + nd          \* the blank
        ns == SpaceRun(s, ps)
    IN
    IF ~(DayField(nd, d) /\ (lead = 1 => nd = 1) /\ ns >= 1) THEN ParseError
    ELSE
    LET nh == DigitRun(s, ps + ns)
        h  == IntAt(s, ps + ns, nh)
        pc2 == ps + ns + nh                \* the ":"
    IN
    IF ~(HourField(nh, h) /\ pc2 <= Len(s) /\ s[pc2] = ":") THEN ParseError
    ELSE
    LET nM == DigitRun(s, pc2 + 1)
        mi == IntAt(s, pc2 + 1, nM)
    IN
    IF ~(MinuteField(nM, mi) /\ pc2 + nM = Len(s)) THEN ParseError
    ELSE IF ~(Y >= 1 /\ d <= DaysInMonth(Y, mo)) THEN ParseError
    ELSE [ok |-> TRUE, year |-> Y, month |-> mo, day |-> d, hour |-> h, minute |-> mi]

\* day of the week, 0 = Sunday
DayOfWeek(y, m, d) ==
    LET t == <<0, 3, 2, 5, 0, 3, 5, 1, 4, 6, 2, 4>>
        yy == IF m < 3 THEN y - 1 ELSE y
    IN  (yy + (yy \div 4) - (yy \div 100) + (yy \div 400) + t[m] + d) % 7

\* the n-th Sunday of month m of year y
NthSunday(y, m, n) ==
    CHOOSE d \in (7 * (n - 1) + 1)..(7 * n) : DayOfWeek(y, m, d) = 0

\* variant: a time in the spring gap is moved to the next valid hour
localize_normalized(dt) ==
    LET inGap == /\ dt.month = 3 /\ dt.day = NthSunday(dt.year, 3, 2)
                 /\ dt.hour = 2
    IN  [year |-> dt.year, month |-> dt.month, day |-> dt.day,
         hour |-> IF inGap THEN 3 ELSE dt.hour, minute |-> dt.minute,
         utcoffset |-> IF inGap THEN -4 ELSE -5]

\* pytz.timezone('US/Eastern').localize(dt), is_dst = False, under the rule
\* in force since 2007 (second Sunday of March 02:00 to first Sunday of
\* November 02:00): the wall-clock fields are kept and a tzinfo is attached.
\* A time in the spring gap or in the repeated autumn hour gets EST.
localize(dt) ==
    LET spring == NthSunday(dt.year, 3, 2)
        autumn == NthSunday(dt.year, 11, 1)
        afterStart == \/ dt.month > 3
                      \/ (dt.month = 3 /\ dt.day > spring)
                      \/ (dt.month = 3 /\ dt.day = spring /\ dt.hour >= 3)
        beforeEnd == \/ dt.month < 11
                     \/ (dt.month = 11 /\ dt.day < autumn)
                     \/ (dt.month = 11 /\ dt.day = autumn /\ dt.hour < 1)
    IN  [year |-> dt.year, month |-> dt.month, day |-> dt.day,
         hour |-> dt.hour, minute |-> dt.minute,
         utcoffset |-> IF afterStart /\ beforeEnd THEN -4 ELSE -5]

\* the body of the try block: slicing a value that is no text raises
\* TypeError, strptime raises ValueError
ConvertBody(timestamp) ==
    IF timestamp.t # "str" THEN Raised
    ELSE LET stripped == SubSeq(timestamp.v, 1, Len(timestamp.v) - 4)
             naive_dt == strptime(stripped)
         IN  IF ~naive_dt.ok THEN Raised
             ELSE NumCell(localize(naive_dt).hour)

\* variant: no handler around the conversion
_convert_to_eastern_hour_uncaught(timestamp) ==
    IF NotNull(timestamp) THEN ConvertBody(timestamp) ELSE NullCell

_convert_to_eastern_hour(timestamp) ==
    IF NotNull(timestamp)
    THEN LET r == ConvertBody(timestamp)
         IN  IF r = Raised THEN NullCell ELSE r
    ELSE NullCell

(* ------------------------------ tables --------------------------------- *)
Min(S) == CHOOSE x \in S : \A y \in S : x <= y
Max(S) == CHOOSE x \in S : \A y \in S : x >= y

HasColumn(df, name) == \E i \in 1..Len(df.columns) : df.columns[i] = name
ColIdx(df, name) == CHOOSE i \in 1..Len(df.columns) : df.columns[i] = name

TotalsColumns ==
    <<"Total", "Duration", "Pallets", "Cubes", "Cases", "Pounds", "Routes",
      "Stops", "Distance", "Cube Per Mile", "11", "12", "13", "14", "15",
      "16", "17", "18", "19", "20", "Source", "Date", "Report", "DC",
      "Country", "Commodity", "Release ID", "Simulation">>

MdtColumns ==
    <<"Activity start time", "Hours", "Trailer", "Backhaul Info", "Route Number",
      "Activity Type", "Unit Type", "Unit Profile", "Drop Profile", "Start Window",
      "End Window", "DC", "City", "State", "LBS", "Pallets", "Cubes", "Cases",
      "Distance", "Comment", "Trip Id", "Source", "Date", "Report", "DC ID",
      "Country", "Commodity", "Release ID", "Simulation">>

DispatchColumns ==
    <<"Activity start time", "Trailer", "Backhaul Info", "Route Number",
      "Activity Type", "Unit Type", "Unit Profile", "Drop Profile", "Start Window",
      "End Window", "Store Club Id", "Store Club City", "Store Club State", "LBS",
      "Pallets", "Cubes", "Cases", "Distance", "Comment", "Trip Id", "Source",
      "Date", "Report", "DC", "Country", "Commodity", "Release ID", "Simulation">>

\* pd.DataFrame(data, columns = columns) of a list of row lists: the rows
\* are padded with None to the longest of them, and a width other than the
\* number of column names raises ValueError; no rows give an empty table
DataFrame(data, columns) ==
    IF data = <<>> THEN [raised |-> FALSE, columns |-> columns, rows |-> <<>>]
    ELSE LET width == Max({Len(data[i]) : i \in 1..Len(data)})
         IN  IF width # Len(columns)
             THEN [raised |-> TRUE, columns |-> columns, rows |-> <<>>]
             ELSE [raised |-> FALSE, columns |-> columns,
                   rows |-> [i \in 1..Len(data) |->
                               [j \in 1..width |->
                                  IF j <= Len(data[i]) THEN data[i][j] ELSE NullCell]]]

_create_totals_dataframe(data) == DataFrame(data, TotalsColumns)
_create_mdt_dataframe(data) == DataFrame(data, MdtColumns)
_create_dispatch_dataframe(data) == DataFrame(data, DispatchColumns)

(* ------------------------- _process_single_file ------------------------ *)
\* pd.read_excel(path, skiprows = k): the first row read is the header,
\* the rows after it are the data
ReadExcel(file, skiprows) ==
    IF Len(file.sheet) <= skiprows THEN <<>>
    ELSE SubSeq(file.sheet, skiprows + 2, Len(file.sheet))

\* the number of columns of the table read
ReadWidth(file, skiprows) ==
    IF Len(file.sheet) <= skiprows THEN 0 ELSE Len(file.sheet[skiprows + 1])

HeaderMarker == <<"a","c","t","i","v","i","t","y"," ","s","t","a","r","t"," ","t","i","m","e">>
DefaultStartRow == 11
PreviewRows == 20

\* variant: every row of the sheet is scanned, not the first 20 only
_detect_data_start_row_unbounded(file) ==
    IF ~file.readable THEN DefaultStartRow
    ELSE LET n == Len(file.sheet)
             hits == {i \in 1..n :
                        /\ Len(file.sheet[i]) >= 1
                        /\ StrLower(StrStrip(PyStr(file.sheet[i][1]))) = HeaderMarker}
         IN  IF hits = {} THEN DefaultStartRow ELSE Min(hits) - 1

\* the preview is the first 20 rows read without a header; a failure of
\* the read (or a sheet with no column 0) is logged and gives the default
_detect_data_start_row(file) ==
    IF ~file.readable THEN DefaultStartRow
    ELSE LET n == IF Len(file.sheet) < PreviewRows THEN Len(file.sheet) ELSE PreviewRows
             hits == {i \in 1..n :
                        /\ Len(file.sheet[i]) >= 1
                        /\ StrLower(StrStrip(PyStr(file.sheet[i][1]))) = HeaderMarker}
         IN  IF hits = {} THEN DefaultStartRow ELSE Min(hits) - 1

MetadataFields == 7

\* the names the 7 columns are renamed to
MetadataColumns ==
    <<"Date", "Report", "Store ID", "Country", "Product", "ID", "Baseline">>

\* Source.str.split('_', expand = True).reindex(columns = range(7)): the
\* columns the split did not produce are filled with NaN
_split_filename_metadata(filename) ==
    LET parts == Split(filename, "_")
    IN  [i \in 1..MetadataFields |->
            IF i <= Len(parts) THEN StrCell(parts[i]) ELSE NullCell]

\* Baseline.astype(str).apply(lambda x: x.split('.')[0])
_clean_baseline_column(meta) ==
    [meta EXCEPT ![MetadataFields] = StrCell(Split(PyStr(@), ".")[1])]

Metadata(filename) == _clean_baseline_column(_split_filename_metadata(filename))

CellIs(c, text) == c.t = "str" /\ c.v = text

\* the value lists of the three tables of one file; raised when the file
\* cannot be read or a positional column (4, 5, 17) does not exist
_process_single_file(file, filename) ==
    LET src == StrCell(filename)
        start_row == _detect_data_start_row(file)
        full == [i \in 1..Len(ReadExcel(file, 0)) |-> Append(ReadExcel(file, 0)[i], src)]
        disp == ReadExcel(file, start_row)
        IsTotal(r) == CellIs(r[1], <<"T","o","t","a","l">>)
        IsMdt(r) == /\ CellIs(r[5], <<"D","E","P","O","T">>)
                    /\ CellIs(r[6], <<"D","C">>)
                    /\ r[18].t = "num" /\ r[18].n = 0
        totals == SelectSeq(full, IsTotal)
        mdt == SelectSeq(full, IsMdt)
    IN  IF ~file.readable \/ ReadWidth(file, 0) + 1 < 18
        THEN [raised |-> TRUE, totals |-> <<>>, mdt |-> <<>>, dispatch |-> <<>>]
        ELSE [raised |-> FALSE,
              totals |-> [i \in 1..Len(totals) |-> totals[i] \o Metadata(filename)],
              mdt |-> [i \in 1..Len(mdt) |->
                         <<mdt[i][1], _convert_to_eastern_hour(mdt[i][1])>>
                         \o Tail(mdt[i]) \o Metadata(filename)],
              dispatch |-> [i \in 1..Len(disp) |->
                              Append(disp[i], src) \o Metadata(filename)]]

(* --------------------------- _map_time_ranges -------------------------- *)
\* f"{n:02d}"
Pad2(n) == IF n < 10 THEN <<"0">> \o DecStr(n) ELSE DecStr(n)

\* variant: the end of the range is not wrapped at midnight
TimeRange_unwrapped(i) == Pad2(i) \o <<":","0","0","-">> \o Pad2(i + 1) \o <<":","0","0">>

\* time_ranges[i] = f"{i:02d}:00-{(i + 1) % 24:02d}:00" for i in range(24)
TimeRange(i) == Pad2(i) \o <<":","0","0","-">> \o Pad2((i + 1) % 24) \o <<":","0","0">>

\* Series.map(time_ranges): a value that is no key of the dict maps to NaN
MapTimeRange(hours) ==
    IF hours.t = "num" /\ hours.n \in 0..23 THEN StrCell(TimeRange(hours.n))
    ELSE NullCell

_map_time_ranges(df) ==
    IF df.rows # <<>> /\ HasColumn(df, "Hours")
    THEN [columns |-> Append(df.columns, "Time Range"),
          rows |-> [i \in 1..Len(df.rows) |->
                      Append(df.rows[i], MapTimeRange(df.rows[i][ColIdx(df, "Hours")]))]]
    ELSE [columns |-> Append(df.columns, "Time Range"),
          rows |-> [i \in 1..Len(df.rows) |-> Append(df.rows[i], NullCell)]]

(* ------------------------ _enhance_dispatch_data ----------------------- *)
\* f"Stop {i+1} of {total_stops}"
StopComment(k, total_stops) == <<"S","t","o","p"," ">> \o DecStr(k) \o <<" ","o","f"," ">> \o DecStr(total_stops)

\* variant: the header row is not counted
ExcelRow_without_header(idx) == idx + 1

\* excel_row = idx + 2
ExcelRow(idx) == idx + 2

\* f'=TEXT(N{excel_row}/41500,"0.00%")'
TripIdFormula(excel_row) == <<"=","T","E","X","T","(","N">> \o DecStr(excel_row) \o <<"/","4","1","5","0","0",",","\"","0",".","0","0","%","\"",")">>

\* the rows of df_store: Unit Type is STORE and both grouping keys are set
IsStoreRow(df, i) ==
    /\ CellIs(df.rows[i][ColIdx(df, "Unit Type")], <<"S","T","O","R","E">>)
    /\ NotNull(df.rows[i][ColIdx(df, "Route Number")])
    /\ NotNull(df.rows[i][ColIdx(df, "Simulation")])

\* the rows of the group of row i of df_store.groupby([Route Number, Simulation])
StopGroup(df, i) ==
    {j \in 1..Len(df.rows) :
        /\ IsStoreRow(df, j)
        /\ df.rows[j][ColIdx(df, "Route Number")] = df.rows[i][ColIdx(df, "Route Number")]
        /\ df.rows[j][ColIdx(df, "Simulation")] = df.rows[i][ColIdx(df, "Simulation")]}

\* assign_stop_position: the rows of a group are numbered in table order
assign_stop_position(df, i) ==
    StrCell(StopComment(Cardinality({j \in StopGroup(df, i) : j <= i}),
                        Cardinality(StopGroup(df, i))))

\* df['Comment'] = df['Comment'].astype(str), then the cells of the store
\* rows are replaced by their stop position
StopPositions(df) ==
    IF \A c \in {"Route Number", "Simulation", "Unit Type", "Comment"} : HasColumn(df, c)
    THEN [df EXCEPT !.rows =
            [i \in 1..Len(df.rows) |->
               [df.rows[i] EXCEPT ![ColIdx(df, "Comment")] =
                  IF IsStoreRow(df, i) THEN assign_stop_position(df, i)
                  ELSE StrCell(PyStr(@))]]]
    ELSE df

\* the trailer utilisation formula: idx is the index label of the row, and
\* the table built by pd.DataFrame has the labels 0, 1, 2, ...
TripIds(df) ==
    [df EXCEPT !.rows =
        [i \in 1..Len(df.rows) |->
           IF ~NotNull(df.rows[i][ColIdx(df, "Activity start time")])
           THEN [df.rows[i] EXCEPT ![ColIdx(df, "Trip Id")] =
                    StrCell(TripIdFormula(ExcelRow(i - 1)))]
           ELSE df.rows[i]]]

_enhance_dispatch_data(df) == TripIds(StopPositions(df))

(* --------------------------- the input files --------------------------- *)
Range(s) == {s[i] : i \in 1..Len(s)}

\* a sheet row of the given width: the cells named by special, NaN elsewhere
Row(width, special) ==
    [j \in 1..width |-> IF j \in DOMAIN special THEN special[j] ELSE NullCell]

\* a row of the upstream layout: column 0 the activity start time, 3 the
\* route number, 4 the activity type, 5 the unit type, 17 the distance,
\* 18 the comment, 19 the trip id
DataRow(width, start, route, activity, unit, distance, comment, trip) ==
    Row(width, (1 :> start) @@ (4 :> route) @@ (5 :> activity) @@ (6 :> unit)
               @@ (18 :> distance) @@ (19 :> comment) @@ (20 :> trip))

HeaderRow(width, marker) == Row(width, (1 :> StrCell(marker)))

StoreRow(width, start, route, comment) ==
    DataRow(width, start, route, StrCell(<<"D","E","L","I","V","E","R">>), StrCell(<<"S","T","O","R","E">>),
            NumCell(12), comment, StrCell(<<"T","1">>))

DepotRow(width, start, route, comment) ==
    DataRow(width, start, route, StrCell(<<"D","E","P","O","T">>), StrCell(<<"D","C">>),
            NumCell(0), comment, StrCell(<<"T","2">>))

TotalRow(width) ==
    DataRow(width, StrCell(<<"T","o","t","a","l">>), NullCell, NullCell, NullCell,
            NumCell(40), NullCell, NullCell)

\* the spreadsheets the archives hold
FileContent(id) ==
    CASE id = "good1" ->
           [readable |-> TRUE,
            sheet |-> <<HeaderRow(20, <<"D","i","s","p","a","t","c","h"," ","S","u","m","m","a","r","y">>),
                        HeaderRow(20, <<"A","c","t","i","v","i","t","y"," ","S","t","a","r","t"," ","T","i","m","e">>),
                        StoreRow(20, StrCell(<<"2","0","2","4","-","0","6","-","1","5"," ","0","8",":","0","5"," ","E","D","T">>), StrCell(<<"R","1">>), NullCell),
                        DepotRow(20, StrCell(<<"2","0","2","4","-","0","6","-","1","5"," ","1","4",":","3","0"," ","E","D","T">>), StrCell(<<"R","1">>), StrCell(<<"d","o","c","k">>)),
                        StoreRow(20, NullCell, StrCell(<<"R","1">>), StrCell(<<"l","a","t","e">>)),
                        TotalRow(20)>>]
      [] id = "good2" ->
           [readable |-> TRUE,
            sheet |-> <<HeaderRow(20, <<" ","a","c","t","i","v","i","t","y"," ","s","t","a","r","t"," ","t","i","m","e"," ">>),
                        StoreRow(20, StrCell(<<"2","0","2","4","-","0","3","-","1","0"," ","0","2",":","3","0"," ","E","S","T">>), StrCell(<<"R","2">>), NumCell(7)),
                        DepotRow(20, StrCell(<<"1","0","/","0","3","/","2","0","2","4"," ","4","p","m">>), NullCell, NullCell),
                        StoreRow(20, StrCell(<<"2","0","2","4","-","0","3","-","1","0"," ","0","9",":","0","0"," ","E","D","T">>), NullCell, NullCell)>>]
      [] id = "narrow" ->
           [readable |-> TRUE,
            sheet |-> <<HeaderRow(19, <<"A","c","t","i","v","i","t","y"," ","s","t","a","r","t"," ","t","i","m","e">>), TotalRow(19)>>]
      [] id = "wide" ->
           [readable |-> TRUE,
            sheet |-> <<HeaderRow(21, <<"A","c","t","i","v","i","t","y"," ","s","t","a","r","t"," ","t","i","m","e">>),
                        StoreRow(21, NullCell, StrCell(<<"R","3">>), NullCell)>>]
      [] id = "tiny" ->
           [readable |-> TRUE,
            sheet |-> <<HeaderRow(10, <<"A","c","t","i","v","i","t","y"," ","s","t","a","r","t"," ","t","i","m","e">>),
                        StoreRow(10, NullCell, StrCell(<<"R","4">>), NullCell)>>]
      [] id = "nohdr" ->
           [readable |-> TRUE,
            sheet |-> [i \in 1..13 |->
                         IF i <= 12 THEN HeaderRow(20, <<"p","r","e","a","m","b","l","e">>)
                         ELSE StoreRow(20, NullCell, StrCell(<<"R","5">>), NullCell)]]
      [] OTHER -> [readable |-> FALSE, sheet |-> <<>>]

Member(path, content) == [path |-> path, content |-> content]

\* the entries a walk of the upload directory can meet
Uploads ==
    {[name |-> <<"a",".","z","i","p">>, bad |-> FALSE, failAt |-> 0,
      members |-> <<Member(<<"2","0","2","4","0","1","0","1","_","R","p","t","_","1","2","3","_","U","S","_","G","r","o","c","e","r","y","_","4","2","_","S","i","m","A",".","x","l","s","x">>, "good1"),
                    Member(<<"n","o","t","e","s",".","t","x","t">>, "text"),
                    Member(<<"2","0","2","4","0","1","0","1","_","R","p","t","_","1","2","3","_","U","S","_","G","r","o","c","e","r","y","_","4","2","_","S","i","m","A",".","c","s","v">>, "good1")>>],
     [name |-> <<"b",".","z","i","p">>, bad |-> FALSE, failAt |-> 0,
      members |-> <<Member(<<"s","u","b","/","2","0","2","4","0","1","0","8","_","R","p","t","_","1","2","3","_","U","S","_","G","r","o","c","e","r","y","_","4","2","_","S","i","m","B",".","x","l","s","x">>, "good1"),
                    Member(<<"U","n","p","l","a","n","n","e","d","_","B","a","c","k","h","a","u","l","s","_","R","e","a","s","o","n","_","7",".","x","l","s","x">>, "nohdr"),
                    Member(<<"2","0","2","4","0","1","0","8","_","R","p","t","_","4","5","6","_","U","S","_","G","r","o","c","e","r","y","_","4","3","_","S","i","m","B",".","x","l","s">>, "good2")>>],
     [name |-> <<"c",".","z","i","p">>, bad |-> FALSE, failAt |-> 0,
      members |-> <<Member(<<"2","0","2","4","0","1","1","5","_","R","p","t","_","7","8","9","_","U","S","_","G","r","o","c","e","r","y","_","4","4","_","S","i","m","A",".","x","l","s","x">>, "narrow"),
                    Member(<<"l","o","c","k","e","d",".","x","l","s">>, "unreadable"),
                    Member(<<"s","h","o","r","t",".","x","l","s","x">>, "tiny")>>],
     [name |-> <<"d",".","z","i","p">>, bad |-> FALSE, failAt |-> 2,
      members |-> <<Member(<<"2","0","2","4","0","1","2","2","_","R","p","t","_","3","2","1","_","U","S","_","G","r","o","c","e","r","y","_","4","5","_","S","i","m","B",".","x","l","s","x">>, "wide"),
                    Member(<<"2","0","2","4","0","1","2","9","_","R","p","t","_","3","2","1","_","U","S","_","G","r","o","c","e","r","y","_","4","6","_","S","i","m","B",".","x","l","s","x">>, "good2")>>],
     [name |-> <<"b","r","o","k","e","n",".","z","i","p">>, bad |-> TRUE, failAt |-> 0, members |-> <<>>],
     [name |-> <<"r","e","a","d","m","e",".","t","x","t">>, bad |-> FALSE, failAt |-> 0, members |-> <<>>]}

\* the walks: the orders in which os.walk can meet up to MaxWalk entries
RECURSIVE Walks(_)
Walks(n) ==
    IF n = 0 THEN {<<>>}
    ELSE Walks(n - 1) \cup
         {Append(w, a) : w \in {v \in Walks(n - 1) : Len(v) = n - 1},
                         a \in Uploads}

DistinctWalks(n) == {w \in Walks(n) : \A i, j \in 1..Len(w) : i # j => w[i] # w[j]}

(* ----------------------- process_extracted_files ----------------------- *)
ExcelSuffixes == {<<".","x","l","s","x">>, <<".","x","l","s">>}

\* the entries of os.listdir(folder), in the order of their creation: the
\* files at the top of the folder and the directories made for the members
\* extracted under a directory
TopName(path) == Split(path, "/")[1]

RECURSIVE ListDir(_)
ListDir(fs) ==
    IF fs = <<>> THEN <<>>
    ELSE LET rest == ListDir(SubSeq(fs, 1, Len(fs) - 1))
             name == TopName(fs[Len(fs)].path)
         IN  IF \E i \in 1..Len(rest) : rest[i] = name THEN rest
             ELSE Append(rest, name)

Reverse(s) == [i \in 1..Len(s) |-> s[Len(s) + 1 - i]]

\* os.remove deletes a file and fails on a directory; the failure is logged
\* and the directory stays with the files under it
CanRemove(path) == ~Contains(path, <<"/">>)

_cleanup_extracted_files(fs) ==
    LET Stays(f) == ~CanRemove(f.path)
    IN  SelectSeq(fs, Stays)

\* the body of the try block of one file of the listing: a directory
\* entry with a spreadsheet name cannot be read
ProcessEntry(fs, file) ==
    IF file \in Paths(fs)
    THEN _process_single_file(
            FileContent((CHOOSE f \in Range(fs) : f.path = file).content), file)
    ELSE [raised |-> TRUE, totals |-> <<>>, mdt |-> <<>>, dispatch |-> <<>>]

\* the three extend calls; a file whose processing raised is logged and
\* adds nothing
Extend(acc, r) ==
    IF r.raised THEN acc
    ELSE [sheet1_data |-> acc.sheet1_data \o r.totals,
          sheet2_data |-> acc.sheet2_data \o r.mdt,
          sheet3_data |-> acc.sheet3_data \o r.dispatch]

\* the file loop: only the names ending in .xlsx or .xls are processed
RECURSIVE CollectFiles(_, _, _, _)
CollectFiles(fs, listing, i, acc) ==
    IF i > Len(listing) THEN acc
    ELSE CollectFiles(fs, listing, i + 1,
            IF EndsWithAny(listing[i], ExcelSuffixes)
            THEN Extend(acc, ProcessEntry(fs, listing[i]))
            ELSE acc)

NoTable == [columns |-> <<>>, rows |-> <<>>]
Frame(d) == [columns |-> d.columns, rows |-> d.rows]

\* lines 60-72: [raised, df1, df2, df3, fs]; an exception of the table
\* constructors is not caught, and the clean-up is then never reached
Assemble(d1, d2, d3, fs) ==
    IF d1.raised \/ d2.raised \/ d3.raised
    THEN [raised |-> TRUE, df1 |-> NoTable, df2 |-> NoTable, df3 |-> NoTable, fs |-> fs]
    ELSE [raised |-> FALSE,
          df1 |-> Frame(d1),
          df2 |-> _map_time_ranges(Frame(d2)),
          df3 |-> _enhance_dispatch_data(Frame(d3)),
          fs |-> _cleanup_extracted_files(fs)]

CreateTables(acc, fs) ==
    Assemble(_create_totals_dataframe(acc.sheet1_data),
             _create_mdt_dataframe(acc.sheet2_data),
             _create_dispatch_dataframe(acc.sheet3_data), fs)

process_extracted_files(fs, listing) ==
    CreateTables(CollectFiles(fs, listing, 1,
                   [sheet1_data |-> <<>>, sheet2_data |-> <<>>, sheet3_data |-> <<>>]),
                 fs)

(* ---------------------------- create_report ---------------------------- *)
\* the steps of create_report, by the sheet each writes, in program order
ReportSteps ==
    <<"Analysis", "Summary", "Dispatch Summaries Raw", "MDT Raw", "Totals Raw",
      "MDT Analysis">>

\* df.empty
IsEmpty(df) == df.rows = <<>> \/ df.columns = <<>>

\* Python round(a / b) of naturals a and b > 0: to the nearest integer, a
\* half to the even one
PyRound(a, b) ==
    IF 2 * (a % b) < b THEN a \div b
    ELSE IF 2 * (a % b) > b THEN (a \div b) + 1
    ELSE IF (a \div b) % 2 = 0 THEN a \div b
    ELSE (a \div b) + 1

\* pd.to_datetime accepts the Date text of the naming pattern, YYYYMMDD
\* with a month and a day that exist, and raises on a text of letters
DateParses(c) ==
    /\ c.t = "str"
    /\ Len(c.v) = 8
    /\ \A i \in 1..8 : IsDigit(c.v[i])
    /\ IntAt(c.v, 5, 2) \in 1..12
    /\ IntAt(c.v, 7, 2) \in 1..DaysInMonth(IntAt(c.v, 1, 4), IntAt(c.v, 5, 2))

\* df['Date'].dropna().unique()
UniqueDates(df) ==
    {df.rows[i][ColIdx(df, "Date")] : i \in 1..Len(df.rows)} \ {NullCell}

\* variant: the number of weeks is not floored to 1
_calculate_modeled_weeks_unfloored(custom_weeks, df) ==
    IF custom_weeks > 0 THEN custom_weeks
    ELSE IF HasColumn(df, "Date") /\ UniqueDates(df) # {}
    THEN IF \A d \in UniqueDates(df) : DateParses(d)
         THEN PyRound(Cardinality(UniqueDates(df)), 7)
         ELSE 1
    ELSE 1

\* the number of weeks the data stands for; an exception of pd.to_datetime
\* is logged and gives the default of 1 week
_calculate_modeled_weeks(custom_weeks, df) ==
    IF custom_weeks > 0 THEN custom_weeks
    ELSE IF HasColumn(df, "Date") /\ UniqueDates(df) # {}
    THEN IF \A d \in UniqueDates(df) : DateParses(d)
         THEN Max({1, PyRound(Cardinality(UniqueDates(df)), 7)})
         ELSE 1
    ELSE 1

\* annual_formulas of an annual_factor: Stops, Routes, Distance Annually
AnnualFormulas(annual_factor) ==
    <<<<"=","E","9","*">> \o DecStr(annual_factor),
      <<"=","E","8","*">> \o DecStr(annual_factor),
      <<"=","E","1","0","*">> \o DecStr(annual_factor)>>

\* annual_factor = round(52 / modeled_weeks): a division by 0 raises, and
\* the handler of _create_analysis_sheet raises it again
AnnualFactor(modeled_weeks) ==
    IF modeled_weeks = 0
    THEN [done |-> TRUE, raised |-> TRUE, formulas |-> <<>>]
    ELSE [done |-> TRUE, raised |-> FALSE,
          formulas |-> AnnualFormulas(PyRound(52, modeled_weeks))]

\* the annualization section of _create_analysis_sheet
AnnualizationSection(custom_weeks, df) ==
    AnnualFactor(_calculate_modeled_weeks(custom_weeks, df))

\* utils.METRICS: the columns of the Totals table the pivot sums, and
\* their names as text
METRICS == <<"Pallets", "Cubes", "Cases", "Pounds", "Routes", "Stops", "Distance">>
MetricText ==
    <<<<"P","a","l","l","e","t","s">>, <<"C","u","b","e","s">>, <<"C","a","s","e","s">>, <<"P","o","u","n","d","s">>, <<"R","o","u","t","e","s">>, <<"S","t","o","p","s">>, <<"D","i","s","t","a","n","c","e">>>>

\* the order of the characters of the keys of the pivot
CharOrder == <<"0","1","2","3","4","5","6","7","8","9","A","B","C","D","E","F","G","H","I","J","K","L","M","N","O","P","Q","R","S","T","U","V","W","X","Y","Z","a","b","c","d","e","f","g","h","i","j","k","l","m","n","o","p","q","r","s","t","u","v","w","x","y","z">>
CharRank(c) ==
    IF \E i \in 1..Len(CharOrder) : CharOrder[i] = c
    THEN CHOOSE i \in 1..Len(CharOrder) : CharOrder[i] = c
    ELSE 0

RECURSIVE TextLess(_, _)
TextLess(a, b) ==
    IF b = <<>> THEN FALSE
    ELSE IF a = <<>> THEN TRUE
    ELSE IF a[1] = b[1] THEN TextLess(Tail(a), Tail(b))
    ELSE CharRank(a[1]) < CharRank(b[1])

\* the keys of an axis of the pivot are sorted
RECURSIVE SortTexts(_)
SortTexts(S) ==
    IF S = {} THEN <<>>
    ELSE LET m == CHOOSE x \in S : \A y \in S \ {x} : TextLess(x, y)
         IN  <<m>> \o SortTexts(S \ {m})

\* pd.pivot_table groups the rows whose DC and Simulation are both set
PivotRows(df) ==
    {i \in 1..Len(df.rows) :
        /\ NotNull(df.rows[i][ColIdx(df, "DC")])
        /\ NotNull(df.rows[i][ColIdx(df, "Simulation")])}

\* pivot.index and pivot.columns.levels[1]
PivotIndex(df) == SortTexts({PyStr(df.rows[i][ColIdx(df, "DC")]) : i \in PivotRows(df)})
PivotColumns(df) ==
    SortTexts({PyStr(df.rows[i][ColIdx(df, "Simulation")]) : i \in PivotRows(df)})

\* pivot.loc[dc, (val, sim)]: the sum of the metric over the rows of the
\* DC and the simulation, 0 when there is none
RECURSIVE PivotValue(_, _, _, _, _)
PivotValue(df, i, dc, sim, val) ==
    IF i > Len(df.rows) THEN 0
    ELSE PivotValue(df, i + 1, dc, sim, val)
         + (IF /\ i \in PivotRows(df)
               /\ PyStr(df.rows[i][ColIdx(df, "DC")]) = dc
               /\ PyStr(df.rows[i][ColIdx(df, "Simulation")]) = sim
               /\ df.rows[i][ColIdx(df, val)].t = "num"
            THEN df.rows[i][ColIdx(df, val)].n
            ELSE 0)

\* sheet.write(row, col, ...) and sheet.write_formula(row, col, ...), rows
\* and columns counted from 0
WriteText(row, col, text) ==
    [row |-> row, col |-> col, kind |-> "text", text |-> text, n |-> 0]
WriteNumber(row, col, n) ==
    [row |-> row, col |-> col, kind |-> "number", text |-> <<>>, n |-> n]
WriteFormula(row, col, text) ==
    [row |-> row, col |-> col, kind |-> "formula", text |-> text, n |-> 0]

\* the rows of the block of one DC: its label, then one row per metric
BlockRows == 1 + Len(METRICS)

\* lines 155-167: the row labels; max_row after the loop
RowLabelCells(index) ==
    {WriteText(1, 0, <<"R","o","w"," ","L","a","b","e","l","s">>)}
    \cup {WriteText(3 + BlockRows * (k - 1), 0, index[k]) : k \in 1..Len(index)}
    \cup {WriteText(3 + BlockRows * (k - 1) + m, 0, <<"S","u","m"," ","o","f"," ">> \o MetricText[m]) :
            k \in 1..Len(index), m \in 1..Len(METRICS)}

MaxRowAfterLabels(index) == 3 + BlockRows * Len(index)

\* lines 170-181: the simulation headers and the values; col after the loop
ValueCells(df, index, columns) ==
    {WriteText(1, j, columns[j]) : j \in 1..Len(columns)}
    \cup {WriteNumber(3 + BlockRows * (k - 1) + m, j,
                      PivotValue(df, 1, index[k], columns[j], METRICS[m])) :
            k \in 1..Len(index), m \in 1..Len(METRICS), j \in 1..Len(columns)}

ColAfterValues(columns) == 1 + Len(columns)

\* chr(65 + c)
ColLetter(c) == SubSeq(Upper, c + 1, c + 1)

\* variant: the column is added from one simulation column on
DifferenceNeeded_from_one(col) == col > 1

\* if col > 2
DifferenceNeeded(col) == col > 2

\* lines 184-187: the column of differences, on the rows 4 .. max_row - 1
DifferenceCells(max_row, col) ==
    IF DifferenceNeeded(col)
    THEN {WriteText(1, col, <<"D","i","f","f","e","r","e","n","c","e">>)}
         \cup {WriteFormula(row, col,
                   <<"=","C">> \o DecStr(row + 1) \o <<"-","B">> \o DecStr(row + 1)) :
                 row \in 4..(max_row - 1)}
    ELSE {}

\* lines 190-199: the grand total of the m-th metric is written at row
\* max_row + m + 1, in the columns 1 .. min(4, col + 1) - 1
GrandTotalCells(max_row, col) ==
    {WriteText(max_row + m, 0, <<"G","r","a","n","d"," ","T","o","t","a","l"," ">> \o MetricText[m]) : m \in 1..Len(METRICS)}
    \cup {WriteFormula(max_row + m, c,
               <<"S","U","M","I","F","(","A","4",":","A">> \o DecStr(max_row + m - 1) \o <<","," ","\"","S","u","m"," ","o","f"," ">>
               \o MetricText[m] \o <<"\"",","," ">> \o ColLetter(c) \o <<"4",":">> \o ColLetter(c)
               \o DecStr(max_row + m - 1) \o <<")">>) :
            m \in 1..Len(METRICS), c \in 1..(Min({4, col + 1}) - 1)}

\* the cells of the Summary sheet of a pivot
SummaryCells(df, index, columns) ==
    RowLabelCells(index)
    \cup ValueCells(df, index, columns)
    \cup DifferenceCells(MaxRowAfterLabels(index), ColAfterValues(columns))
    \cup GrandTotalCells(MaxRowAfterLabels(index), ColAfterValues(columns))

\* the Summary sheet _create_pivot_table writes: none for an empty table
SummarySheet(df) ==
    IF IsEmpty(df) THEN [done |-> TRUE, written |-> FALSE, cells |-> {}]
    ELSE [done |-> TRUE, written |-> TRUE,
          cells |-> SummaryCells(df, PivotIndex(df), PivotColumns(df))]

\* Each step gives [raised, sheets]: the sheets it added to the workbook
\* and whether an exception left it.  fault says that the step fails, late
\* that it fails after its add_worksheet call.

\* the handler logs the exception and raises it again
_create_analysis_sheet(fault) ==
    [raised |-> fault, sheets |-> <<"Analysis">>]

\* variant: the handler raises the exception again
_create_pivot_table_reraising(df, fault, late) ==
    IF IsEmpty(df) THEN [raised |-> FALSE, sheets |-> <<>>]
    ELSE IF fault /\ ~late THEN [raised |-> TRUE, sheets |-> <<>>]
    ELSE [raised |-> fault, sheets |-> <<"Summary">>]

\* returns at once on an empty table; the handler logs and swallows
_create_pivot_table(df, fault, late) ==
    IF IsEmpty(df) THEN [raised |-> FALSE, sheets |-> <<>>]
    ELSE IF fault /\ ~late THEN [raised |-> FALSE, sheets |-> <<>>]
    ELSE [raised |-> FALSE, sheets |-> <<"Summary">>]

\* df.to_excel(writer, sheet_name = name, index = False)
to_excel(name, fault) ==
    [raised |-> fault, sheets |-> <<name>>]

\* returns at once on an empty table or one without Time Range; the
\* handler logs and swallows
_create_mdt_chart(df, fault, late) ==
    IF IsEmpty(df) \/ ~HasColumn(df, "Time Range") THEN [raised |-> FALSE, sheets |-> <<>>]
    ELSE IF fault /\ ~late THEN [raised |-> FALSE, sheets |-> <<>>]
    ELSE [raised |-> FALSE, sheets |-> <<"MDT Analysis">>]

NoWorkbook == [returned |-> FALSE, sheets |-> <<>>]

\* the steps run in order inside the try block; the first exception that
\* leaves a step is logged and raised again, and no buffer is returned
create_report(d1, d2, d3, faults, late) ==
    LET steps == <<_create_analysis_sheet("Analysis" \in faults),
                   _create_pivot_table(d1, "Summary" \in faults, late),
                   to_excel("Dispatch Summaries Raw", "Dispatch Summaries Raw" \in faults),
                   to_excel("MDT Raw", "MDT Raw" \in faults),
                   to_excel("Totals Raw", "Totals Raw" \in faults),
                   _create_mdt_chart(d2, "MDT Analysis" \in faults, late)>>
    IN  IF \E i \in 1..Len(steps) : steps[i].raised THEN NoWorkbook
        ELSE [returned |-> TRUE,
              sheets |-> steps[1].sheets \o steps[2].sheets \o steps[3].sheets
                         \o steps[4].sheets \o steps[5].sheets \o steps[6].sheets]

(* ------------------------ process_uploaded_files ----------------------- *)
VARIABLES
    pc,                 \* the position of process_uploaded_files
    exclude_backhauls,  \* DataProcessor.exclude_backhauls
    input_path,         \* the walk of the uploaded files
    extracted_path,     \* the extraction directory
    df1, df2, df3,      \* the Totals, MDT and Dispatch tables
    faults, late,       \* the steps of create_report that fail, and when
    output_buffer,      \* the workbook create_report returned
    timestamp,          \* the argument of _convert_to_eastern_hour
    clock,              \* the date and time the argument was written from
    hour,               \* the hour _convert_to_eastern_hour returned
    mdt_rows,           \* the MDT rows of a sheet holding that timestamp
    dispatch_in,        \* the argument of _enhance_dispatch_data
    dispatch_out,       \* the table _enhance_dispatch_data returned
    source,             \* the Source filename the metadata is derived from
    metadata,           \* the 7 metadata fields derived from it
    mdt_in,             \* the argument of _map_time_ranges
    mdt_out,            \* the table _map_time_ranges returned
    custom_weeks,       \* ExcelGenerator.custom_weeks
    totals_in,          \* the Totals table given to _create_analysis_sheet
    annual,             \* the annualization section it wrote, or its exception
    preview,            \* the spreadsheet given to _detect_data_start_row
    start_row,          \* the row _detect_data_start_row returned
    summary_in,         \* the Totals table given to _create_pivot_table
    summary_out         \* the Summary sheet it wrote

pipeVars == <<pc, exclude_backhauls, input_path, extracted_path, df1, df2, df3,
              faults, late, output_buffer>>
hourVars == <<timestamp, clock, hour, mdt_rows>>
dispatchVars == <<dispatch_in, dispatch_out>>
metaVars == <<source, metadata>>
timeVars == <<mdt_in, mdt_out>>
weeksVars == <<custom_weeks, totals_in, annual>>
detectVars == <<preview, start_row>>
summaryVars == <<summary_in, summary_out>>
unitVars == <<metaVars, timeVars, weeksVars, detectVars, summaryVars>>
vars == <<pipeVars, hourVars, dispatchVars, unitVars>>

\* the value of a result not computed yet
Pending == [t |-> "pending", v |-> <<>>, n |-> 0]
NoClock == [text |-> FALSE, year |-> 0, month |-> 0, day |-> 0, hour |-> 0,
            minute |-> 0, suffix |-> <<>>]

HourIdle ==
    /\ timestamp = NullCell /\ clock = NoClock
    /\ hour = Pending /\ mdt_rows = <<>>

DispatchIdle == dispatch_in = NoTable /\ dispatch_out = NoTable

\* the values of the results not computed yet
NoAnnual == [done |-> FALSE, raised |-> FALSE, formulas |-> <<>>]
NoStartRow == [done |-> FALSE, row |-> 0]
NoSheet == [done |-> FALSE, written |-> FALSE, cells |-> {}]
NoFile == [readable |-> FALSE, sheet |-> <<>>]

MetaIdle == source = <<>> /\ metadata = <<>>
TimeIdle == mdt_in = NoTable /\ mdt_out = NoTable
WeeksIdle == custom_weeks = 0 /\ totals_in = NoTable /\ annual = NoAnnual
DetectIdle == preview = NoFile /\ start_row = NoStartRow
SummaryIdle == summary_in = NoTable /\ summary_out = NoSheet
UnitIdle == MetaIdle /\ TimeIdle /\ WeeksIdle /\ DetectIdle /\ SummaryIdle

PipeIdle ==
    /\ pc = "idle"
    /\ exclude_backhauls = TRUE
    /\ input_path = <<>>
    /\ extracted_path = <<>>
    /\ df1 = NoTable /\ df2 = NoTable /\ df3 = NoTable
    /\ faults = {} /\ late = FALSE
    /\ output_buffer = [returned |-> FALSE, sheets |-> <<>>]

\* the largest number of failing steps of one create_report call
MaxFaults == 2

FaultSets == {F \in SUBSET Range(ReportSteps) : Cardinality(F) <= MaxFaults}

Init ==
    /\ pc = "uploaded"
    /\ exclude_backhauls \in BOOLEAN
    /\ input_path \in DistinctWalks(MaxWalk)
    /\ extracted_path = <<>>
    /\ df1 = NoTable /\ df2 = NoTable /\ df3 = NoTable
    /\ faults = {} /\ late = FALSE
    /\ output_buffer = NoWorkbook
    /\ HourIdle /\ DispatchIdle /\ UnitIdle

\* processor.extract_files(input_path, extracted_path)
ExtractFiles ==
    /\ pc = "uploaded"
    /\ \E r \in {extract_files(input_path, 1, extracted_path, exclude_backhauls)} :
           /\ extracted_path' = r.fs
           /\ pc' = IF r.raised THEN "extract_raised" ELSE "extracted"
    /\ UNCHANGED <<exclude_backhauls, input_path, df1, df2, df3, faults, late,
                   output_buffer, hourVars, dispatchVars, unitVars>>

\* df1, df2, df3 = processor.process_extracted_files(extracted_path); the
\* directory is listed in the order of creation of its entries or in the
\* reverse order
ProcessExtractedFiles ==
    /\ pc = "extracted"
    /\ \E listing \in {ListDir(extracted_path), Reverse(ListDir(extracted_path))} :
       \E r \in {process_extracted_files(extracted_path, listing)} :
              /\ df1' = r.df1 /\ df2' = r.df2 /\ df3' = r.df3
              /\ extracted_path' = r.fs
              /\ pc' = IF r.raised THEN "process_raised" ELSE "processed"
    /\ UNCHANGED <<exclude_backhauls, input_path, faults, late, output_buffer,
                   hourVars, dispatchVars, unitVars>>

\* output_buffer = excel_generator.create_report(df1, df2, df3)
CreateReport ==
    /\ pc = "processed"
    /\ \E F \in FaultSets, l \in BOOLEAN :
       \E book \in {create_report(df1, df2, df3, F, l)} :
          /\ faults' = F /\ late' = l
          /\ output_buffer' = book
          /\ pc' = IF book.returned THEN "reported" ELSE "report_raised"
    /\ UNCHANGED <<exclude_backhauls, input_path, extracted_path, df1, df2, df3,
                   hourVars, dispatchVars, unitVars>>

\* show_results, then the end of the with block: the temporary directory
\* is removed with all it holds
ShowResults ==
    /\ pc = "reported"
    /\ pc' = "done"
    /\ extracted_path' = <<>>
    /\ UNCHANGED <<exclude_backhauls, input_path, df1, df2, df3, faults, late,
                   output_buffer, hourVars, dispatchVars, unitVars>>

\* an exception leaves the with block, which removes the temporary
\* directory, and the handler shows the error
SurfaceError ==
    /\ pc \in {"extract_raised", "process_raised", "report_raised"}
    /\ pc' = "error"
    /\ extracted_path' = <<>>
    /\ UNCHANGED <<exclude_backhauls, input_path, df1, df2, df3, faults, late,
                   output_buffer, hourVars, dispatchVars, unitVars>>

Next ==
    \/ ExtractFiles
    \/ ProcessExtractedFiles
    \/ CreateReport
    \/ ShowResults
    \/ SurfaceError

Spec == Init /\ [][Next]_vars

(* -------------- _convert_to_eastern_hour on bounded inputs ------------- *)
\* the largest hour and minute numbers written into a timestamp text
MaxHour == 24
MaxMinute == 60

\* f"{n:04d}"
Pad4(n) ==
    IF n < 10 THEN <<"0","0","0">> \o DecStr(n)
    ELSE IF n < 100 THEN <<"0","0">> \o DecStr(n)
    ELSE IF n < 1000 THEN <<"0">> \o DecStr(n)
    ELSE DecStr(n)

\* the text "YYYY-MM-DD HH:MM" of a date and time, followed by its suffix
ClockText(c) ==
    Pad4(c.year) \o <<"-">> \o Pad2(c.month) \o <<"-">> \o Pad2(c.day) \o <<" ">>
    \o Pad2(c.hour) \o <<":">> \o Pad2(c.minute) \o c.suffix

\* an ordinary day, the days the clocks change, the end of February and a
\* month that does not exist
ClockDates == {<<6, 15>>, <<3, 10>>, <<3, 12>>, <<11, 3>>, <<11, 5>>, <<2, 29>>,
               <<2, 30>>, <<13, 1>>}
ClockSuffixes == {<<" ","E","D","T">>, <<" ","E","S","T">>, <<"-","X","X","X","X">>, <<"-","0","4",":","0","0">>, <<"Z">>, <<>>}

Clocks ==
    {[text |-> TRUE, year |-> y, month |-> md[1], day |-> md[2], hour |-> h,
      minute |-> mi, suffix |-> sfx] :
        y \in {2023, 2024}, md \in ClockDates, h \in 0..MaxHour,
        mi \in {0, 30, 59, MaxMinute}, sfx \in ClockSuffixes}

\* cells that hold no such text: an empty cell, a number, other texts
OtherTimestamps ==
    {NullCell, NumCell(45458), StrCell(<<>>), StrCell(<<"E","D","T">>),
     StrCell(<<"1","0","/","0","3","/","2","0","2","4"," ","4","p","m"," ","E","D","T">>), StrCell(<<"2","0","2","4","-","0","6","-","1","5","T","1","4",":","3","0"," ","E","D","T">>)}

\* a sheet whose only data row is a depot row with the given start time
OneRowFile(start) ==
    [readable |-> TRUE,
     sheet |-> <<HeaderRow(20, <<"A","c","t","i","v","i","t","y"," ","s","t","a","r","t"," ","t","i","m","e">>),
                 DepotRow(20, start, StrCell(<<"R","1">>), NullCell)>>]

InitHour ==
    /\ PipeIdle /\ DispatchIdle /\ UnitIdle
    /\ \/ \E c \in Clocks : clock = c /\ timestamp = StrCell(ClockText(c))
       \/ clock = NoClock /\ timestamp \in OtherTimestamps
    /\ hour = Pending
    /\ mdt_rows = <<>>

\* the conversion of one value, and of the MDT row of a sheet that holds it
ConvertHour ==
    /\ hour = Pending
    /\ hour' = _convert_to_eastern_hour(timestamp)
    /\ mdt_rows' = _process_single_file(OneRowFile(timestamp),
                       <<"2","0","2","4","0","1","0","1","_","R","p","t","_","1","2","3","_","U","S","_","G","r","o","c","e","r","y","_","4","2","_","S","i","m","A",".","x","l","s","x">>).mdt
    /\ UNCHANGED <<timestamp, clock, pipeVars, dispatchVars, unitVars>>

NextHour == ConvertHour

SpecHour == InitHour /\ [][NextHour]_vars

(* --------------- _enhance_dispatch_data on bounded inputs -------------- *)
\* the largest number of rows of the dispatch table
MaxRows == 4

\* a row of the dispatch table: Activity start time, Route Number, Unit
\* Type, Comment, Trip Id and Simulation at their places in DispatchColumns
DispatchRow(unit, route, sim, comment, start) ==
    Row(Len(DispatchColumns),
        (1 :> start) @@ (4 :> route) @@ (6 :> unit) @@ (19 :> comment)
        @@ (20 :> StrCell(<<"T","1">>)) @@ (28 :> sim))

DispatchRows ==
    {DispatchRow(StrCell(<<"S","T","O","R","E">>), StrCell(<<"R","1">>), StrCell(<<"S","i","m","A">>), NullCell,
                 StrCell(<<"2","0","2","4","-","0","6","-","1","5"," ","0","8",":","0","5"," ","E","D","T">>)),
     DispatchRow(StrCell(<<"S","T","O","R","E">>), StrCell(<<"R","1">>), StrCell(<<"S","i","m","A">>), StrCell(<<"l","a","t","e">>),
                 NullCell),
     DispatchRow(StrCell(<<"S","T","O","R","E">>), StrCell(<<"R","1">>), StrCell(<<"S","i","m","B">>), StrCell(<<"l","a","t","e">>),
                 StrCell(<<"2","0","2","4","-","0","6","-","1","5"," ","0","8",":","0","5"," ","E","D","T">>)),
     DispatchRow(StrCell(<<"S","T","O","R","E">>), StrCell(<<"R","2">>), StrCell(<<"S","i","m","A">>), NullCell,
                 StrCell(<<"2","0","2","4","-","0","6","-","1","5"," ","0","9",":","1","0"," ","E","D","T">>)),
     DispatchRow(StrCell(<<"S","T","O","R","E">>), NullCell, StrCell(<<"S","i","m","A">>), StrCell(<<"l","a","t","e">>),
                 NullCell),
     DispatchRow(StrCell(<<"D","E","P","O","T">>), StrCell(<<"R","1">>), StrCell(<<"S","i","m","A">>), StrCell(<<"d","o","c","k">>),
                 StrCell(<<"2","0","2","4","-","0","6","-","1","5"," ","0","6",":","0","0"," ","E","D","T">>)),
     DispatchRow(StrCell(<<"D","E","P","O","T">>), StrCell(<<"R","1">>), StrCell(<<"S","i","m","A">>), NullCell,
                 NullCell)}

RECURSIVE RowLists(_)
RowLists(n) ==
    IF n = 0 THEN {<<>>}
    ELSE RowLists(n - 1) \cup
         {Append(l, r) : l \in {k \in RowLists(n - 1) : Len(k) = n - 1},
                         r \in DispatchRows}

InitDispatch ==
    /\ PipeIdle /\ HourIdle /\ UnitIdle
    /\ \E data \in RowLists(MaxRows) :
          dispatch_in = Frame(_create_dispatch_dataframe(data))
    /\ dispatch_out = NoTable

EnhanceDispatch ==
    /\ dispatch_out = NoTable
    /\ dispatch_out' = _enhance_dispatch_data(dispatch_in)
    /\ UNCHANGED <<dispatch_in, pipeVars, hourVars, unitVars>>

NextDispatch == EnhanceDispatch

SpecDispatch == InitDispatch /\ [][NextDispatch]_vars

(* ---------------- filename metadata on bounded inputs ------------------ *)
\* the largest number of underscore-delimited parts of a filename
MaxParts == 8

\* sep.join(parts)
RECURSIVE Join(_, _)
Join(parts, sep) ==
    IF parts = <<>> THEN <<>>
    ELSE IF Len(parts) = 1 THEN parts[1]
    ELSE parts[1] \o sep \o Join(Tail(parts), sep)

\* the parts of the upstream naming pattern
\* Date_Report_StoreID_Country_Product_ID_Baseline
NameParts == <<<<"2","0","2","4","0","1","0","1">>, <<"R","p","t">>, <<"1","2","3">>, <<"U","S">>, <<"G","r","o","c","e","r","y">>, <<"4","2">>>>

\* the texts met at the 7th place, without and with dots of their own
BaselineStems == {<<"S","i","m","A">>, <<"S","i","m",".","A">>, <<"v","1",".","2",".","B","a","s","e">>, <<>>}
FileExtensions == {<<".","x","l","s","x">>, <<".","x","l","s">>, <<".","c","s","v">>, <<>>}
FirstParts == {<<"2","0","2","4","0","1","0","1">>, <<"2","0","2","4","0","1","0","8">>}

\* a filename of k parts: the pattern's parts, the stem at the 7th place,
\* further parts after it, and the extension at the end
SourceName(k, first, stem, ext) ==
    Join([i \in 1..k |->
            IF i = 1 THEN first
            ELSE IF i <= Len(NameParts) THEN NameParts[i]
            ELSE IF i = MetadataFields THEN stem
            ELSE <<"e","x","t","r","a">>], <<"_">>) \o ext

SourceNames ==
    {SourceName(k, first, stem, ext) :
        k \in 1..MaxParts, first \in FirstParts, stem \in BaselineStems,
        ext \in FileExtensions}

InitMetadata ==
    /\ PipeIdle /\ HourIdle /\ DispatchIdle
    /\ TimeIdle /\ WeeksIdle /\ DetectIdle /\ SummaryIdle
    /\ source \in SourceNames
    /\ metadata = <<>>

\* _clean_baseline_column(pd.concat([df, _split_filename_metadata(df)]))
\* on the rows of one file, which all hold the same Source
DeriveMetadata ==
    /\ metadata = <<>>
    /\ metadata' = _clean_baseline_column(_split_filename_metadata(source))
    /\ UNCHANGED <<source, pipeVars, hourVars, dispatchVars, timeVars, weeksVars,
                   detectVars, summaryVars>>

NextMetadata == DeriveMetadata

SpecMetadata == InitMetadata /\ [][NextMetadata]_vars

(* ------------------ _map_time_ranges on bounded inputs ----------------- *)
\* the largest number of rows of the MDT table
MaxMdtRows == 2

\* the Hours _convert_to_eastern_hour can return: None or datetime.hour
HourCells == {NullCell} \cup {NumCell(h) : h \in 0..23}

\* a row of the MDT table with the given Hours
MdtRow(hours) ==
    Row(Len(MdtColumns),
        (2 :> hours) @@ (3 :> StrCell(<<"T","2">>)) @@ (29 :> StrCell(<<"S","i","m","A">>)))

RECURSIVE MdtRowLists(_)
MdtRowLists(n) ==
    IF n = 0 THEN {<<>>}
    ELSE MdtRowLists(n - 1) \cup
         {Append(l, MdtRow(h)) : l \in {k \in MdtRowLists(n - 1) : Len(k) = n - 1},
                                 h \in HourCells}

InitTimeRange ==
    /\ PipeIdle /\ HourIdle /\ DispatchIdle
    /\ MetaIdle /\ WeeksIdle /\ DetectIdle /\ SummaryIdle
    /\ \E data \in MdtRowLists(MaxMdtRows) :
          mdt_in = Frame(_create_mdt_dataframe(data))
    /\ mdt_out = NoTable

\* df2 = self._map_time_ranges(df2)
MapTimeRanges ==
    /\ mdt_out = NoTable
    /\ mdt_out' = _map_time_ranges(mdt_in)
    /\ UNCHANGED <<mdt_in, pipeVars, hourVars, dispatchVars, metaVars, weeksVars,
                   detectVars, summaryVars>>

NextTimeRange == MapTimeRanges

SpecTimeRange == InitTimeRange /\ [][NextTimeRange]_vars

(* --------------- the annualization factor on bounded inputs ------------ *)
\* the largest custom_weeks, and the largest number of dates of the table
MaxWeeks == 52
MaxDates == 11

\* a row of the Totals table with the given Date
TotalsRow(date) ==
    Row(Len(TotalsColumns),
        (1 :> StrCell(<<"T","o","t","a","l">>)) @@ (22 :> date) @@ (28 :> StrCell(<<"S","i","m","A">>)))

\* the n-th Date of the data: a day of January 2024
DateCell(n) == StrCell(<<"2","0","2","4","0","1">> \o Pad2(n))

\* what a table can hold besides its n distinct dates: nothing, a second
\* row of its first date, a row without Date, a row of a file whose name
\* does not start with a date
ExtraRows(n) ==
    {<<>>, <<TotalsRow(NullCell)>>, <<TotalsRow(StrCell(<<"l","o","c","k","e","d",".","x","l","s">>))>>}
    \cup (IF n > 0 THEN {<<TotalsRow(DateCell(1))>>} ELSE {})

\* the Totals tables, and a table that has no Date column
DateTables ==
    {Frame(_create_totals_dataframe(
        [i \in 1..n |-> TotalsRow(DateCell(i))] \o extra)) :
            n \in 0..MaxDates, extra \in UNION {ExtraRows(k) : k \in 0..MaxDates}}
    \cup {[columns |-> <<"Total">>, rows |-> <<<<StrCell(<<"T","o","t","a","l">>)>>>>]}

InitWeeks ==
    /\ PipeIdle /\ HourIdle /\ DispatchIdle
    /\ MetaIdle /\ TimeIdle /\ DetectIdle /\ SummaryIdle
    /\ custom_weeks \in 0..MaxWeeks
    /\ totals_in \in DateTables
    /\ annual = NoAnnual

\* self._create_analysis_sheet(writer, df1), lines 88-101
WriteAnnualization ==
    /\ annual = NoAnnual
    /\ annual' = AnnualizationSection(custom_weeks, totals_in)
    /\ UNCHANGED <<custom_weeks, totals_in, pipeVars, hourVars, dispatchVars,
                   metaVars, timeVars, detectVars, summaryVars>>

NextWeeks == WriteAnnualization

SpecWeeks == InitWeeks /\ [][NextWeeks]_vars

(* --------------- _detect_data_start_row on bounded inputs -------------- *)
\* the largest number of rows of the sheet
MaxSheetRows == 22

\* the texts a header cell can hold: the marker in other cases and with
\* blanks around it, and texts that only start like it
MarkerTexts ==
    {<<"A","c","t","i","v","i","t","y"," ","S","t","a","r","t"," ","T","i","m","e">>, <<" "," ","a","c","t","i","v","i","t","y"," ","s","t","a","r","t"," ","t","i","m","e","\\","t">>, <<"A","C","T","I","V","I","T","Y"," ","S","T","A","R","T"," ","T","I","M","E">>,
     <<"A","c","t","i","v","i","t","y"," ","S","t","a","r","t">>, <<"a","c","t","i","v","i","t","y"," ","s","t","a","r","t"," ","t","i","m","e"," ","(","l","o","c","a","l",")">>}

\* a sheet of len rows: the text at row p, the marker again at row q, a
\* number at row 1 and other texts elsewhere (p = 0, q = 0: not there)
PreviewSheet(len, p, text, q) ==
    [i \in 1..len |->
        IF i = p THEN <<StrCell(text), NullCell>>
        ELSE IF i = q THEN <<StrCell(<<"A","c","t","i","v","i","t","y"," ","s","t","a","r","t"," ","t","i","m","e">>), NullCell>>
        ELSE IF i = 1 THEN <<NumCell(45458), StrCell(<<"x">>)>>
        ELSE IF i = 2 THEN <<NullCell, StrCell(<<"y">>)>>
        ELSE <<StrCell(<<"d","a","t","a">>), NumCell(i)>>]

PreviewFiles ==
    {[readable |-> TRUE, sheet |-> PreviewSheet(len, p, text, q)] :
        len \in 0..MaxSheetRows, p \in 0..MaxSheetRows, text \in MarkerTexts,
        q \in {0} \cup {PreviewRows, PreviewRows + 1, MaxSheetRows}}
    \cup {[readable |-> FALSE, sheet |-> PreviewSheet(3, 3, <<"A","c","t","i","v","i","t","y"," ","S","t","a","r","t"," ","T","i","m","e">>, 0)]}

InitDetect ==
    /\ PipeIdle /\ HourIdle /\ DispatchIdle
    /\ MetaIdle /\ TimeIdle /\ WeeksIdle /\ SummaryIdle
    /\ preview \in PreviewFiles
    /\ start_row = NoStartRow

\* start_row = self._detect_data_start_row(path)
DetectStartRow ==
    /\ ~start_row.done
    /\ start_row' = [done |-> TRUE, row |-> _detect_data_start_row(preview)]
    /\ UNCHANGED <<preview, pipeVars, hourVars, dispatchVars, metaVars, timeVars,
                   weeksVars, summaryVars>>

NextDetect == DetectStartRow

SpecDetect == InitDetect /\ [][NextDetect]_vars

(* ----------------- the Summary sheet on bounded inputs ----------------- *)
\* the largest number of rows of the Totals table
MaxTotalsRows == 4

\* a row of the Totals table of a DC and a simulation; every metric holds n
SummaryRow(dc, sim, n) ==
    Row(Len(TotalsColumns),
        (1 :> StrCell(<<"T","o","t","a","l">>)) @@ [j \in 3..9 |-> NumCell(n)]
        @@ (24 :> StrCell(dc)) @@ (28 :> StrCell(sim)))

SummaryRows ==
    {SummaryRow(<<"1","2","3">>, <<"S","i","m","A">>, 40), SummaryRow(<<"1","2","3">>, <<"S","i","m","B">>, 35),
     SummaryRow(<<"4","5","6">>, <<"S","i","m","A">>, 12), SummaryRow(<<"1","2","3">>, <<"S","i","m","C">>, 7),
     SummaryRow(<<"4","5","6">>, <<"S","i","m","D">>, 3)}

RECURSIVE SummaryRowLists(_)
SummaryRowLists(n) ==
    IF n = 0 THEN {<<>>}
    ELSE SummaryRowLists(n - 1) \cup
         {Append(l, r) : l \in {k \in SummaryRowLists(n - 1) : Len(k) = n - 1},
                         r \in SummaryRows}

InitSummary ==
    /\ PipeIdle /\ HourIdle /\ DispatchIdle
    /\ MetaIdle /\ TimeIdle /\ WeeksIdle /\ DetectIdle
    /\ \E data \in SummaryRowLists(MaxTotalsRows) :
          summary_in = Frame(_create_totals_dataframe(data))
    /\ summary_out = NoSheet

\* self._create_pivot_table(writer, df1)
CreatePivotTable ==
    /\ ~summary_out.done
    /\ summary_out' = SummarySheet(summary_in)
    /\ UNCHANGED <<summary_in, pipeVars, hourVars, dispatchVars, metaVars, timeVars,
                   weeksVars, detectVars>>

NextSummary == CreatePivotTable

SpecSummary == InitSummary /\ [][NextSummary]_vars

(* ------------------------------- claims -------------------------------- *)
\* the extraction directory as extract_files leaves it
ExtractedFiles == extract_files(input_path, 1, <<>>, exclude_backhauls).fs

\* the files process_extracted_files reads: the spreadsheets at the top of
\* the extraction directory
ProcessedFiles ==
    {f \in Range(ExtractedFiles) :
        EndsWithAny(f.path, ExcelSuffixes) /\ ~Contains(f.path, <<"/">>)}

\* a file whose processing fails: it cannot be read, or its sheet does not
\* have the 20 columns expected
FileFails(f) ==
    \/ ~FileContent(f.content).readable
    \/ ReadWidth(FileContent(f.content), 0) # 20

\* the number of rows of a table that come from the file of the given name
RowsFrom(df, name) ==
    Cardinality({i \in 1..Len(df.rows) :
                    df.rows[i][ColIdx(df, "Source")] = StrCell(name)})

\* C1: when the processing of a file fails, process_extracted_files does
\* not raise, the file adds no row to the Totals, MDT and Dispatch tables,
\* and each table holds exactly the rows of the other files.
C1_FailedFileSkipped ==
    pc \in {"processed", "process_raised"} =>
        /\ pc = "processed"
        /\ \A f \in ProcessedFiles :
              LET r == _process_single_file(FileContent(f.content), f.path)
              IN  IF FileFails(f)
                  THEN /\ RowsFrom(df1, f.path) = 0
                       /\ RowsFrom(df2, f.path) = 0
                       /\ RowsFrom(df3, f.path) = 0
                  ELSE /\ RowsFrom(df1, f.path) = Len(r.totals)
                       /\ RowsFrom(df2, f.path) = Len(r.mdt)
                       /\ RowsFrom(df3, f.path) = Len(r.dispatch)

\* the archives of the walk that open and extract without error
ReadableArchives ==
    {a \in Range(input_path) : EndsWith(a.name, <<".","z","i","p">>) /\ ~a.bad /\ a.failAt = 0}

\* the members of the archives of the walk
ArchiveMembers(archives) == UNION {Range(a.members) : a \in archives}

\* the member paths the extraction rule names
Eligible(path) ==
    /\ \/ EndsWith(path, <<".","x","l","s","x">>) \/ EndsWith(path, <<".","x","l","s">>) \/ EndsWith(path, <<".","c","s","v">>)
    /\ ~(exclude_backhauls /\ Contains(path, <<"U","n","p","l","a","n","n","e","d","_","B","a","c","k","h","a","u","l","s","_","R","e","a","s","o","n">>))

\* C2: a member of a readable .zip archive is extracted if and only if its
\* path ends in .xlsx, .xls or .csv and it is not the case that exclusion
\* is enabled and the path contains Unplanned_Backhauls_Reason; nothing
\* else is written to the output directory.
C2_ExtractedIffEligible ==
    pc = "extracted" =>
        /\ \A m \in ArchiveMembers(ReadableArchives) :
              (m.path \in Paths(extracted_path)) <=> Eligible(m.path)
        /\ \A f \in Range(extracted_path) :
              /\ Eligible(f.path)
              /\ f \in ArchiveMembers({a \in Range(input_path) : EndsWith(a.name, <<".","z","i","p">>)})

C2_Witness ==
    /\ pc = "extracted"
    /\ exclude_backhauls
    /\ \E a \in ReadableArchives :
          /\ \E m \in Range(a.members) :
                Contains(m.path, ExcludePattern) /\ m.path \notin Paths(extracted_path)
          /\ \E m \in Range(a.members) : m.path \in Paths(extracted_path)
    /\ \E a \in ReadableArchives : \E m \in Range(a.members) :
          ~EndsWithAny(m.path, SpreadsheetSuffixes) /\ m.path \notin Paths(extracted_path)

\* the archives that cannot be opened or fail while a member is extracted
IsCorrupt(a) == EndsWith(a.name, <<".","z","i","p">>) /\ (a.bad \/ a.failAt # 0)

\* C3: a corrupt archive never makes extract_files raise and never stops
\* the walk: whatever the order of the walk, every eligible member of every
\* readable archive is extracted.
C3_CorruptArchiveSkipped ==
    /\ pc # "extract_raised"
    /\ pc = "extracted" =>
          \A a \in ReadableArchives : \A m \in Range(a.members) :
              Eligible(m.path) => m \in Range(extracted_path)

C3_Witness ==
    /\ pc = "extracted"
    /\ \E i, j \in 1..Len(input_path) :
          /\ i < j
          /\ IsCorrupt(input_path[i])
          /\ input_path[j] \in ReadableArchives
          /\ \E m \in Range(input_path[j].members) : m \in Range(extracted_path)

SixSheets ==
    {"Analysis", "Summary", "MDT Analysis", "Dispatch Summaries Raw", "MDT Raw",
     "Totals Raw"}

\* C4: every workbook create_report returns, for any tables and also for
\* empty ones, holds exactly the six sheets Analysis, Summary, MDT
\* Analysis, Dispatch Summaries Raw, MDT Raw and Totals Raw.
C4_SixSheets ==
    output_buffer.returned =>
        /\ Len(output_buffer.sheets) = 6
        /\ Range(output_buffer.sheets) = SixSheets

FatalSteps == {"Analysis", "Dispatch Summaries Raw", "MDT Raw", "Totals Raw"}
SwallowedSteps == {"Summary", "MDT Analysis"}
RawSheets == {"Dispatch Summaries Raw", "MDT Raw", "Totals Raw"}

\* C5: a failure of the Analysis sheet or of a raw sheet reaches the caller
\* and no workbook is returned; a failure of the Summary or of the MDT
\* Analysis sheet is swallowed: a workbook is returned, and the sheets that
\* come after the failing one are written.
C5_FailurePropagation ==
    pc \in {"reported", "report_raised"} =>
        /\ faults \cap FatalSteps # {} =>
              pc = "report_raised" /\ ~output_buffer.returned
        /\ faults \subseteq SwallowedSteps =>
              /\ pc = "reported" /\ output_buffer.returned
              /\ "Analysis" \in Range(output_buffer.sheets)
              /\ RawSheets \subseteq Range(output_buffer.sheets)
              /\ (~IsEmpty(df2) /\ "MDT Analysis" \notin faults) =>
                    "MDT Analysis" \in Range(output_buffer.sheets)

C5_Witness ==
    /\ pc = "reported"
    /\ faults = {"Summary"}
    /\ ~IsEmpty(df1) /\ ~IsEmpty(df2)
    /\ RawSheets \subseteq Range(output_buffer.sheets)
    /\ "MDT Analysis" \in Range(output_buffer.sheets)

\* C6: when extract_files followed by process_extracted_files has ended,
\* by a return or by an exception, no extracted spreadsheet is left in the
\* extraction directory, the members extracted under a directory included.
C6_NoExtractedFileLeft ==
    pc \in {"processed", "process_raised"} =>
        \A f \in Range(extracted_path) : ~EndsWithAny(f.path, SpreadsheetSuffixes)

\* the rows _enhance_dispatch_data numbers: Unit Type is STORE and the two
\* grouping keys are set
Numbered(row) ==
    /\ row[ColIdx(dispatch_in, "Unit Type")] = StrCell(<<"S","T","O","R","E">>)
    /\ row[ColIdx(dispatch_in, "Route Number")].t # "null"
    /\ row[ColIdx(dispatch_in, "Simulation")].t # "null"

SameGroup(r1, r2) ==
    /\ r1[ColIdx(dispatch_in, "Route Number")] = r2[ColIdx(dispatch_in, "Route Number")]
    /\ r1[ColIdx(dispatch_in, "Simulation")] = r2[ColIdx(dispatch_in, "Simulation")]

\* C7: the k-th of the n STORE rows that share Route Number and Simulation
\* gets the Comment "Stop k of n", and every other row keeps its Comment.
C7_StopSequence ==
    dispatch_out # NoTable =>
        \A i \in 1..Len(dispatch_in.rows) :
            LET rows == dispatch_in.rows
                group == {j \in 1..Len(rows) : Numbered(rows[j]) /\ SameGroup(rows[j], rows[i])}
                k == Cardinality({j \in group : j <= i})
                comment == dispatch_out.rows[i][ColIdx(dispatch_out, "Comment")]
            IN  IF Numbered(rows[i])
                THEN comment = StrCell(<<"S","t","o","p"," ">> \o DecStr(k) \o <<" ","o","f"," ">>
                                       \o DecStr(Cardinality(group)))
                ELSE comment = rows[i][ColIdx(dispatch_in, "Comment")]

\* C8: the row at 0-based position p gets the Trip Id
\* =TEXT(N{p+2}/41500,"0.00%") when its Activity start time is null, and
\* keeps its Trip Id otherwise.
C8_TripIdFormula ==
    dispatch_out # NoTable =>
        /\ Len(dispatch_out.rows) = Len(dispatch_in.rows)
        /\ \A p \in 0..(Len(dispatch_in.rows) - 1) :
              LET before == dispatch_in.rows[p + 1]
                  after == dispatch_out.rows[p + 1]
              IN  IF before[ColIdx(dispatch_in, "Activity start time")].t = "null"
                  THEN after[ColIdx(dispatch_out, "Trip Id")] =
                          StrCell(<<"=","T","E","X","T","(","N">> \o DecStr(p + 2) \o <<"/","4","1","5","0","0",",","\"","0",".","0","0","%","\"",")">>)
                  ELSE after[ColIdx(dispatch_out, "Trip Id")] =
                          before[ColIdx(dispatch_in, "Trip Id")]

C8_Witness ==
    /\ dispatch_out # NoTable
    /\ Len(dispatch_in.rows) >= 3
    /\ dispatch_in.rows[1][ColIdx(dispatch_in, "Activity start time")].t # "null"
    /\ dispatch_in.rows[3][ColIdx(dispatch_in, "Activity start time")].t = "null"
    /\ dispatch_out.rows[3][ColIdx(dispatch_out, "Trip Id")] =
          StrCell(<<"=","T","E","X","T","(","N","4","/","4","1","5","0","0",",","\"","0",".","0","0","%","\"",")">>)

\* a date and time that exist on the calendar
ValidClock(c) ==
    /\ c.text
    /\ c.month \in 1..12
    /\ c.day \in 1..DaysInMonth(c.year, c.month)
    /\ c.hour \in 0..23
    /\ c.minute \in 0..59

\* C9 as claimed: "2024-06-15 14:30-XXXX" gives hour 14, and a valid
\* YYYY-MM-DD HH:MM followed by its timezone suffix, of the four or five
\* characters of the examples, gives the hour HH.
C9_SuffixStripped ==
    hour # Pending =>
        /\ timestamp = StrCell(<<"2","0","2","4","-","0","6","-","1","5"," ","1","4",":","3","0","-","X","X","X","X">>) => hour = NumCell(14)
        /\ (ValidClock(clock) /\ clock.suffix \in {<<" ","E","D","T">>, <<" ","E","S","T">>, <<"-","X","X","X","X">>}) =>
              hour = NumCell(clock.hour)

\* C9 amended: a valid YYYY-MM-DD HH:MM followed by a suffix of exactly
\* four characters gives the wall-clock hour HH, on the days the clocks
\* change too; "2024-06-15 14:30-XXXX", whose suffix has five characters,
\* gives null.
C9_FourCharacterSuffix ==
    hour # Pending =>
        /\ (ValidClock(clock) /\ Len(clock.suffix) = 4) => hour = NumCell(clock.hour)
        /\ timestamp = StrCell(<<"2","0","2","4","-","0","6","-","1","5"," ","1","4",":","3","0","-","X","X","X","X">>) => hour = NullCell

C9_Witness ==
    /\ hour = NumCell(2)
    /\ timestamp = StrCell(<<"2","0","2","4","-","0","3","-","1","0"," ","0","2",":","3","0"," ","E","S","T">>)

\* C10: _convert_to_eastern_hour never raises and returns null or an
\* integer of 0..23, and an MDT row whose timestamp does not convert is in
\* the MDT rows with Hours null.
C10_NeverRaises ==
    hour # Pending =>
        /\ hour # Raised
        /\ hour = NullCell \/ (hour.t = "num" /\ hour.n \in 0..23)
        /\ hour = NullCell =>
              /\ Len(mdt_rows) = 1
              /\ mdt_rows[1][1] = timestamp
              /\ mdt_rows[1][2] = NullCell

C10_Witness ==
    /\ hour = NullCell
    /\ timestamp = StrCell(<<"1","0","/","0","3","/","2","0","2","4"," ","4","p","m"," ","E","D","T">>)
    /\ Len(mdt_rows) = 1
    /\ mdt_rows[1][2] = NullCell

\* the underscore-delimited parts of the Source filename
SourceParts == Split(source, "_")

\* C11: for a filename of fewer than 7 underscore-delimited parts the
\* derived metadata has exactly the 7 fields Date .. Baseline in positional
\* order, the fields the filename has hold its parts, and every missing
\* trailing field, Baseline after extension cleaning included, is null
C11_ShortNamesPadded ==
    (metadata # <<>> /\ Len(SourceParts) < MetadataFields) =>
        /\ Len(metadata) = Len(MetadataColumns)
        /\ \A i \in 1..Len(metadata) :
              IF i <= Len(SourceParts)
              THEN metadata[i] = StrCell(SourceParts[i])
              ELSE metadata[i] = NullCell

\* the position of the last dot of s, 0 if it has none
LastDot(s) == Max({0} \cup {i \in 1..Len(s) : s[i] = "."})

\* the 7th field carries a trailing file extension
HasExtension(s) == EndsWithAny(s, SpreadsheetSuffixes)

\* C12: when the 7th underscore-delimited field of the filename carries a
\* trailing file extension, Baseline is that field with only the extension
\* (the text from its last dot on) removed, also when the field holds
\* further dots before the extension
C12_BaselineWithoutExtension ==
    (/\ metadata # <<>>
     /\ Len(SourceParts) >= MetadataFields
     /\ HasExtension(SourceParts[MetadataFields])) =>
        metadata[MetadataFields] =
            StrCell(SubSeq(SourceParts[MetadataFields], 1,
                           LastDot(SourceParts[MetadataFields]) - 1))

\* the two decimal digits of a number below 100
TwoDigits(n) == SubSeq(<<"0","1","2","3","4","5","6","7","8","9">>, (n \div 10) + 1, (n \div 10) + 1)
                \o SubSeq(<<"0","1","2","3","4","5","6","7","8","9">>, (n % 10) + 1, (n % 10) + 1)

\* the label hh:00-nn:00 of the hour h, nn the hour after it on the clock
RangeLabel(h) ==
    TwoDigits(h) \o <<":","0","0","-">> \o TwoDigits(IF h = 23 THEN 0 ELSE h + 1) \o <<":","0","0">>

\* C13: _map_time_ranges is total and cyclic: the table it returns has the
\* Time Range column, also when the table is empty; a row with Hours = h
\* in 0..23 gets the Time Range hh:00-nn:00 with nn = (h + 1) mod 24 (23
\* gives 23:00-00:00, 0 gives 00:00-01:00), a row with null Hours gets a
\* null Time Range, and the other cells of the rows are kept
C13_TimeRangeTotalCyclic ==
    (mdt_out # NoTable) =>
        /\ mdt_out.columns = Append(mdt_in.columns, "Time Range")
        /\ Len(mdt_out.rows) = Len(mdt_in.rows)
        /\ \A i \in 1..Len(mdt_in.rows) :
              LET h == mdt_in.rows[i][ColIdx(mdt_in, "Hours")]
                  tr == mdt_out.rows[i][ColIdx(mdt_out, "Time Range")]
              IN  /\ SubSeq(mdt_out.rows[i], 1, Len(mdt_in.rows[i])) = mdt_in.rows[i]
                  /\ h = NullCell => tr = NullCell
                  /\ h.t = "num" => tr = StrCell(RangeLabel(h.n))
                  /\ h = NumCell(23) => tr = StrCell(<<"2","3",":","0","0","-","0","0",":","0","0">>)
                  /\ h = NumCell(0) => tr = StrCell(<<"0","0",":","0","0","-","0","1",":","0","0">>)

\* a table mapped with a row of hour 23, labelled across midnight, and a
\* row of null Hours
C13_Witness ==
    /\ mdt_out # NoTable
    /\ \E i, j \in 1..Len(mdt_out.rows) :
          /\ mdt_out.rows[i][ColIdx(mdt_out, "Hours")] = NumCell(23)
          /\ mdt_out.rows[i][ColIdx(mdt_out, "Time Range")] = StrCell(<<"2","3",":","0","0","-","0","0",":","0","0">>)
          /\ mdt_out.rows[j][ColIdx(mdt_out, "Hours")] = NullCell
          /\ mdt_out.rows[j][ColIdx(mdt_out, "Time Range")] = NullCell

\* the integers nearest to a / b, the even one of two equally near
Nearest(a, b) ==
    {k \in 0..a : /\ 2 * (IF a >= k * b THEN a - k * b ELSE k * b - a) <= b
                  /\ 2 * (IF a >= k * b THEN a - k * b ELSE k * b - a) = b => k % 2 = 0}

\* the distinct dates of the Date column of the Totals table
DistinctDates ==
    IF HasColumn(totals_in, "Date")
    THEN {c \in {totals_in.rows[i][ColIdx(totals_in, "Date")] :
                    i \in 1..Len(totals_in.rows)} : NotNull(c)}
    ELSE {}

\* modeledWeeks as the specification gives it
ModeledWeeks ==
    IF custom_weeks > 0 THEN {custom_weeks}
    ELSE IF ~HasColumn(totals_in, "Date") \/ \E c \in DistinctDates : ~DateParses(c)
    THEN {1}
    ELSE {IF k > 1 THEN k ELSE 1 : k \in Nearest(Cardinality(DistinctDates), 7)}

\* C14: the factor written into the three annual formulas of the Analysis
\* sheet is round(52 / modeledWeeks), modeledWeeks being custom_weeks when
\* it is above 0 and else max(1, round(distinctDateCount / 7)) over the
\* Date column (1 if the column is absent or unparsable); modeledWeeks is
\* never 0, so the division does not fail; modeledWeeks = 13 gives 4
C14_AnnualizationFactor ==
    annual.done =>
        /\ ~annual.raised
        /\ 0 \notin ModeledWeeks
        /\ \E w \in ModeledWeeks : \E f \in Nearest(52, w) :
              /\ annual.formulas = <<<<"=","E","9","*">> \o DecStr(f), <<"=","E","8","*">> \o DecStr(f),
                                     <<"=","E","1","0","*">> \o DecStr(f)>>
              /\ w = 13 => f = 4

\* the floor at work: no custom weeks and 1 to 3 distinct dates, which
\* round to 0 weeks, give 1 week and the factor 52
C14_Witness ==
    /\ annual.done /\ ~annual.raised
    /\ custom_weeks = 0
    /\ Cardinality(DistinctDates) \in 1..3
    /\ \A c \in DistinctDates : DateParses(c)
    /\ annual.formulas[1] = <<"=","E","9","*","5","2">>

\* the zero-based rows of the sheet whose column-0 cell holds the marker:
\* its text, trimmed and case-folded, is "activity start time"
MarkerRows ==
    {i \in 0..(Len(preview.sheet) - 1) :
        /\ preview.sheet[i + 1][1].t = "str"
        /\ StrLower(StrStrip(preview.sheet[i + 1][1].v)) = <<"a","c","t","i","v","i","t","y"," ","s","t","a","r","t"," ","t","i","m","e">>}

\* C15: _detect_data_start_row returns the zero-based index of the first
\* of the first 20 column-0 cells that hold the marker, and 11 when none
\* of the first 20 does or the preview cannot be read; a match at row 20
\* or later is never returned
C15_FirstMarkerOfPreview ==
    start_row.done =>
        /\ IF preview.readable /\ \E i \in MarkerRows : i < 20
           THEN /\ start_row.row \in MarkerRows
                /\ \A i \in MarkerRows : start_row.row <= i
           ELSE start_row.row = 11
        /\ ~(start_row.row \in MarkerRows /\ start_row.row >= 20)

\* the marker, in another case and with blanks around it, at row 2 after
\* two other cells, and again at row 20 or later: 2 is returned
C15_Witness ==
    /\ start_row.done
    /\ preview.readable
    /\ 2 \in MarkerRows
    /\ preview.sheet[3][1] # StrCell(<<"a","c","t","i","v","i","t","y"," ","s","t","a","r","t"," ","t","i","m","e">>)
    /\ \E i \in MarkerRows : i >= 20
    /\ start_row.row = 2

\* the simulations of the Totals table: the simulation columns of the
\* pivot are the columns 1 .. SimulationCount of the sheet
Simulations ==
    {summary_in.rows[i][ColIdx(summary_in, "Simulation")].v : i \in 1..Len(summary_in.rows)}
SimulationCount == Cardinality(Simulations)
DCs == {summary_in.rows[i][ColIdx(summary_in, "DC")].v : i \in 1..Len(summary_in.rows)}

StartsWith(s, pre) == Len(s) >= Len(pre) /\ SubSeq(s, 1, Len(pre)) = pre

\* the rows of the sheet by their label in column 0
LabelledRows(pre) ==
    {x.row : x \in {y \in summary_out.cells :
                       y.col = 0 /\ y.kind = "text" /\ StartsWith(y.text, pre)}}
MetricRows == LabelledRows(<<"S","u","m"," ","o","f"," ">>)
GrandTotalRows == LabelledRows(<<"G","r","a","n","d"," ","T","o","t","a","l"," ">>)

\* the letter of a column of the sheet, column 0 being A
ColumnName(c) == SubSeq(<<"A","B","C","D","E","F","G","H","I","J","K","L","M","N","O","P","Q","R","S","T","U","V","W","X","Y","Z">>, c + 1, c + 1)

\* the cells that hold the header Difference
DifferenceHeaders ==
    {x \in summary_out.cells : x.row = 1 /\ x.kind = "text" /\ x.text = <<"D","i","f","f","e","r","e","n","c","e">>}

\* the formula of the cell of the Excel row r: second simulation column
\* minus first simulation column
SecondMinusFirst(r) ==
    <<"=">> \o ColumnName(2) \o DecStr(r) \o <<"-">> \o ColumnName(1) \o DecStr(r)

\* C16: the Summary sheet has a Difference column if and only if the
\* pivot has at least 2 simulation columns; the column then sits right
\* of the last simulation column, and its formula on every metric row is
\* the second simulation column minus the first one of that row
C16_DifferenceColumn ==
    summary_out.written =>
        /\ (DifferenceHeaders # {}) <=> (SimulationCount >= 2)
        /\ \A c \in 1..SimulationCount :
              \E x \in summary_out.cells :
                 x.row = 1 /\ x.col = c /\ x.kind = "text" /\ x.text \in Simulations
        /\ \A x \in DifferenceHeaders : x.col = SimulationCount + 1
        /\ SimulationCount >= 2 =>
              \A r \in MetricRows :
                 /\ \E x \in summary_out.cells :
                       x.row = r /\ x.col = SimulationCount + 1 /\ x.kind = "formula"
                 /\ \A x \in summary_out.cells :
                       (x.row = r /\ x.col = SimulationCount + 1)
                          => x.text = SecondMinusFirst(r + 1)

\* a sheet of two DCs and three simulations: the Difference column is
\* the column E and still holds C minus B
C16_Witness ==
    /\ summary_out.written
    /\ SimulationCount = 3
    /\ Cardinality(DCs) = 2
    /\ \E x \in DifferenceHeaders : x.col = 4
    /\ \E x \in summary_out.cells :
          x.row = 12 /\ x.col = 4 /\ x.kind = "formula" /\ x.text = <<"=","C","1","3","-","B","1","3">>

\* the SUMIF formula of a metric over the Excel rows a .. b of the label
\* column and of the column c
SumIfFormula(m, c, a, b) ==
    <<"S","U","M","I","F","(","A">> \o DecStr(a) \o <<":","A">> \o DecStr(b) \o <<","," ","\"","S","u","m"," ","o","f"," ">>
    \o MetricText[m] \o <<"\"",","," ">> \o ColumnName(c) \o DecStr(a) \o <<":">>
    \o ColumnName(c) \o DecStr(b) \o <<")">>

\* the last Excel row of the sheet
LastRow == Max({x.row : x \in summary_out.cells}) + 1

\* C17: for any number of DCs and simulations the Summary sheet has
\* exactly one grand-total row per metric, and in every simulation column
\* that row holds a SUMIF formula on the label "Sum of <metric>" over a
\* row range of the label column that covers the metric rows of every DC
\* block and no grand-total row
C17_GrandTotalRows ==
    summary_out.written =>
        \A m \in 1..Len(MetricText) :
           /\ Cardinality(LabelledRows(<<"G","r","a","n","d"," ","T","o","t","a","l"," ">> \o MetricText[m])) = 1
           /\ \A g \in LabelledRows(<<"G","r","a","n","d"," ","T","o","t","a","l"," ">> \o MetricText[m]) :
              \A c \in 1..SimulationCount :
                 \E a, b \in 1..LastRow :
                    /\ \E x \in summary_out.cells :
                          /\ x.row = g /\ x.col = c /\ x.kind = "formula"
                          /\ x.text = SumIfFormula(m, c, a, b)
                    /\ \A r \in MetricRows : a <= r + 1 /\ r + 1 <= b
                    /\ \A t \in GrandTotalRows : ~(a <= t + 1 /\ t + 1 <= b)

====
